---- MODULE Spec2Model ----
(***************************************************************************)
(* Model of the QuantumSolutions notebooks.                                *)
(*                                                                         *)
(*   KnapsackProblem.ipynb (src/unnamed/part_000): knapsackSolver reads a  *)
(*   dataset, solve_knapsack builds a BQM, has it sampled by a remote      *)
(*   annealer, decodes the lowest-energy read, checks the weight capacity  *)
(*   and calls itself again when the capacity is exceeded.                 *)
(*                                                                         *)
(*   TravelingSalesperson.ipynb: solve_ncity builds an operator, runs it   *)
(*   once on the QPU, prints a feasibility message and decodes the tour.   *)
(*                                                                         *)
(* Python lists are 0-indexed, TLA+ sequences 1-indexed: item k of the     *)
(* code is element k+1 of costs / weights.  The remote sampler, the        *)
(* sampler constructor and the QPU are the environment: their results are  *)
(* chosen nondeterministically.                                            *)
(***************************************************************************)
EXTENDS Integers, Sequences, FiniteSets

VARIABLES
    (* ---- knapsack notebook ---- *)
    call,                   \* the call the user makes: entry point and arguments
    pc,                     \* control location of the running (innermost) invocation
    stack,                  \* solve_knapsack frames, outermost first
    bqm,                    \* local bqm of the innermost invocation
    sampler,                \* local sampler of runSampler
    sampleset,              \* reads returned by sampler.sample(bqm)
    sample,                 \* sampleset.first.sample
    energy,                 \* sampleset.first.energy
    selected_item_indices,  \* local list built by the decoding loop
    total_weight,           \* local total_weight
    ret,                    \* value being returned to the caller
    err,                    \* exception that reached the process boundary
    output,                 \* solution summary printed by knapsackSolver
    invocations,            \* solve_knapsack invocations started
    sampleCalls,            \* sampler.sample calls made
    outstanding,            \* jobs submitted whose result has not come back
    decoded,                \* samples run through the decoding loop
    overCapacity,           \* over-capacity results seen by the capacity check
    samplersBuilt,          \* sampler instances built by mksampler
    usedSampler,            \* sampler instance of the latest sampler.sample call
    (* ---- TSP notebook ---- *)
    tpc,                    \* control location inside solve_ncity
    ncity, nread,           \* arguments of solve_ncity
    op,                     \* operator returned by get_op
    states_reported,        \* the total number of states get_op prints (int64 bits)
    result,                 \* result of qpu_run
    tspx,                   \* most likely sample
    solution,               \* value returned by get_solution
    printed,                \* lines printed by is_feasible / solve_ncity
    qpuRuns,                \* compute_minimum_eigenvalue calls made
    (* ---- build_knapsack_bqm, slack coefficients at full integer width ---- *)
    slack_pc,               \* control location inside build_knapsack_bqm
    slack_capacity,         \* argument weight_capacity (integer as bits)
    slack_M,                \* local M
    slack_y                 \* local list y (integers as bits)

kvars == <<call, pc, stack, bqm, sampler, sampleset, sample, energy,
           selected_item_indices, total_weight, ret, err, output, invocations,
           sampleCalls, outstanding, decoded, overCapacity, samplersBuilt,
           usedSampler>>
tvars == <<tpc, ncity, nread, op, states_reported, result, tspx, solution, printed,
           qpuRuns>>
svars == <<slack_pc, slack_capacity, slack_M, slack_y>>
vars == <<kvars, tvars, svars>>

(***************************************************************************)
(* Bounds of the model.                                                    *)
(***************************************************************************)
MaxCap == 3        \* weight capacities range over MinCap..MaxCap
MaxAttempts == 3   \* the sampler returns over-capacity reads for at most MaxAttempts-1 attempts
MaxReads == 2      \* distinct reads in one sampleset
MaxCity == 2       \* cities of a TSP instance
MaxShots == 2      \* num_reads of a QPU run
MaxOpCity == 8     \* cities of the instances get_op is run on

MinCap == 0 - 1

(***************************************************************************)
(* Arithmetic helpers.                                                     *)
(***************************************************************************)
RECURSIVE Pow2(_)
Pow2(n) == IF n <= 0 THEN 1 ELSE 2 * Pow2(n - 1)

\* floor(log2(n)) for n >= 1 (math.log2 raises ValueError for n <= 0)
RECURSIVE Log2Floor(_)
Log2Floor(n) == IF n <= 1 THEN 0 ELSE 1 + Log2Floor(n \div 2)

RECURSIVE SumSeq(_)
SumSeq(s) == IF s = <<>> THEN 0 ELSE Head(s) + SumSeq(Tail(s))

RECURSIVE SumOver(_, _)
SumOver(f, S) ==
    IF S = {} THEN 0
    ELSE LET e == CHOOSE e \in S : TRUE IN f[e] + SumOver(f, S \ {e})

\* the first element taken for the largest
MaxSeq_First(s) == s[1]

\* max(costs); the caller guarantees costs is not empty
RECURSIVE MaxSeq(_)
MaxSeq(s) ==
    IF Len(s) = 1 THEN s[1]
    ELSE LET m == MaxSeq(Tail(s)) IN IF Head(s) >= m THEN Head(s) ELSE m

\* sorted(list) for a list of integers (insertion sort)
RECURSIVE Insert(_, _)
Insert(x, s) ==
    IF s = <<>> THEN <<x>>
    ELSE IF x <= Head(s) THEN <<x>> \o s
    ELSE <<Head(s)>> \o Insert(x, Tail(s))

RECURSIVE sorted(_)
sorted(s) == IF s = <<>> THEN <<>> ELSE Insert(Head(s), sorted(Tail(s)))

(***************************************************************************)
(* Data: the dataset files, pandas frames and the calls a user can make.   *)
(***************************************************************************)
Item(c, w) == [cost |-> c, weight |-> w]

\* contents of the dataset files (rows of cost, weight) the notebook is run on
DataFiles ==
    { << Item(2, 1) >>,
      << Item(1, 2), Item(2, 1) >>,
      << Item(2, 2), Item(1, 3) >> }

\* pd.read_csv(pth, names=['cost', 'weight'])
read_csv(rows) == [columns |-> {"cost", "weight"}, rows |-> rows]

\* pd.DataFrame(): the default value of solve_knapsack's xdf parameter
EmptyDataFrame == [columns |-> {}, rows |-> << >>]

\* df['cost'], df['weight']
Column(df, name) == [i \in 1..Len(df.rows) |-> df.rows[i][name]]

\* xdf.loc[indices, col] raises KeyError for a missing column or row label
LocFails(df, indices, col) ==
    \/ col \notin df.columns
    \/ \E i \in 1..Len(indices) : indices[i] \notin 0..(Len(df.rows) - 1)

\* list(xdf.loc[indices, col])
Loc(df, indices, col) == [i \in 1..Len(indices) |-> df.rows[indices[i] + 1][col]]

NoSampler == << "None" >>
UserSampler == << "user" >>
BuiltSampler(k) == << "built", k >>

Capacities == MinCap..MaxCap

\* knapsackSolver(wt_cap, pth): the notebook's own entry point
SolverCalls ==
    { [fn |-> "knapsackSolver", df |-> read_csv(rows), wt_cap |-> c,
       sampler |-> NoSampler, xdf |-> read_csv(rows)] :
        rows \in DataFiles, c \in Capacities }

\* solve_knapsack(costs, weights, weight_capacity[, sampler][, xdf]) called directly;
\* xdf is left at its default or is the frame the arrays come from
DirectCall(rows, c, s, withXdf) ==
    [fn |-> "solve_knapsack", df |-> read_csv(rows), wt_cap |-> c, sampler |-> s,
     xdf |-> IF withXdf THEN read_csv(rows) ELSE EmptyDataFrame]

DirectCalls ==
    { DirectCall(rows, c, s, withXdf) :
        rows \in DataFiles \cup { << >> }, c \in Capacities,
        s \in {NoSampler, UserSampler}, withXdf \in BOOLEAN }

(***************************************************************************)
(* build_knapsack_bqm.                                                     *)
(***************************************************************************)
XVar(k) == << "x", k >>     \* 'x' + str(k)
YVar(k) == << "y", k >>     \* 'y' + str(k)

\* y: the slack coefficients, M powers of two and the terminating value
SlackCoefficients(weight_capacity) ==
    LET M == Log2Floor(weight_capacity)
    IN  [n \in 1..(M + 1) |->
            IF n <= M THEN Pow2(n - 1) ELSE weight_capacity + 1 - Pow2(M)]

\* the exception build_knapsack_bqm raises, "None" when it raises none:
\* max(costs) of an empty list, then log2 of a capacity below 1
BuildError(costs, weight_capacity) ==
    IF Len(costs) = 0 THEN "ValueError"
    ELSE IF weight_capacity < 1 THEN "ValueError"
    ELSE "None"

\* a construction whose x-y coupling has the wrong sign
build_knapsack_bqm_xy_sign(costs, weights, weight_capacity) ==
    LET lagrange == MaxSeq(costs)
        x_size == Len(costs)
        y == SlackCoefficients(weight_capacity)
        num_slack_variables == Len(y)
        xs == { XVar(k) : k \in 0..(x_size - 1) }
        ys == { YVar(k) : k \in 0..(num_slack_variables - 1) }
        xx == { << XVar(i), XVar(j) >> : i \in 0..(x_size - 1), j \in 0..(x_size - 1) }
        yy == { << YVar(i), YVar(j) >> :
                   i \in 0..(num_slack_variables - 1), j \in 0..(num_slack_variables - 1) }
        xy == { << XVar(i), YVar(j) >> :
                   i \in 0..(x_size - 1), j \in 0..(num_slack_variables - 1) }
        keys == { p \in xx \cup yy : p[1][2] < p[2][2] } \cup xy
    IN  [ variables |->
              [i \in 1..(x_size + num_slack_variables) |->
                  IF i <= x_size THEN XVar(i - 1) ELSE YVar(i - x_size - 1)],
          linear |->
              [v \in xs \cup ys |->
                  IF v[1] = "x"
                  THEN lagrange * (weights[v[2] + 1] * weights[v[2] + 1]) - costs[v[2] + 1]
                  ELSE lagrange * (y[v[2] + 1] * y[v[2] + 1])],
          quadratic |->
              [p \in keys |->
                  IF p[1][1] = "x" /\ p[2][1] = "x"
                  THEN 2 * lagrange * weights[p[1][2] + 1] * weights[p[2][2] + 1]
                  ELSE IF p[1][1] = "y"
                  THEN 2 * lagrange * y[p[1][2] + 1] * y[p[2][2] + 1]
                  ELSE 2 * lagrange * weights[p[1][2] + 1] * y[p[2][2] + 1]] ]

build_knapsack_bqm(costs, weights, weight_capacity) ==
    LET lagrange == MaxSeq(costs)
        x_size == Len(costs)
        y == SlackCoefficients(weight_capacity)
        num_slack_variables == Len(y)
        xs == { XVar(k) : k \in 0..(x_size - 1) }
        ys == { YVar(k) : k \in 0..(num_slack_variables - 1) }
        xx == { << XVar(i), XVar(j) >> : i \in 0..(x_size - 1), j \in 0..(x_size - 1) }
        yy == { << YVar(i), YVar(j) >> :
                   i \in 0..(num_slack_variables - 1), j \in 0..(num_slack_variables - 1) }
        xy == { << XVar(i), YVar(j) >> :
                   i \in 0..(x_size - 1), j \in 0..(num_slack_variables - 1) }
        keys == { p \in xx \cup yy : p[1][2] < p[2][2] } \cup xy
    IN  [ variables |->
              [i \in 1..(x_size + num_slack_variables) |->
                  IF i <= x_size THEN XVar(i - 1) ELSE YVar(i - x_size - 1)],
          linear |->
              [v \in xs \cup ys |->
                  IF v[1] = "x"
                  THEN lagrange * (weights[v[2] + 1] * weights[v[2] + 1]) - costs[v[2] + 1]
                  ELSE lagrange * (y[v[2] + 1] * y[v[2] + 1])],
          quadratic |->
              [p \in keys |->
                  IF p[1][1] = "x" /\ p[2][1] = "x"
                  THEN 2 * lagrange * weights[p[1][2] + 1] * weights[p[2][2] + 1]
                  ELSE IF p[1][1] = "y"
                  THEN 2 * lagrange * y[p[1][2] + 1] * y[p[2][2] + 1]
                  ELSE (0 - 2) * lagrange * weights[p[1][2] + 1] * y[p[2][2] + 1]] ]

NoBQM == [variables |-> << >>, linear |-> << >>, quadratic |-> << >>]

(***************************************************************************)
(* The sampler's side: reads over the BQM's variables and their energies.  *)
(***************************************************************************)
Assignments(b) == [DOMAIN b.linear -> {0, 1}]

\* energy of a read: linear and quadratic coefficients over the variables set
Energy(b, s) ==
    SumOver([v \in DOMAIN b.linear |-> b.linear[v] * s[v]], DOMAIN b.linear)
    + SumOver([p \in DOMAIN b.quadratic |-> b.quadratic[p] * s[p[1]] * s[p[2]]],
              DOMAIN b.quadratic)

\* the non-empty sets of at most k reads
RECURSIVE ReadSets(_, _)
ReadSets(A, k) ==
    IF k <= 1 THEN { {a} : a \in A }
    ELSE { S \cup {a} : S \in ReadSets(A, k - 1), a \in A }

\* any read taken for the first
Firsts_AnyRead(b, S) == S

\* sampleset.first: a read of lowest energy
Firsts(b, S) == { r \in S : \A q \in S : Energy(b, r) <= Energy(b, q) }

Reverse(s) == [i \in 1..Len(s) |-> s[Len(s) + 1 - i]]

\* orders in which sample.items() may list the variables
ItemOrders(b) == { b.variables, Reverse(b.variables) }

NoSample == [order |-> << >>, value |-> << >>]

(***************************************************************************)
(* solve_knapsack: decoding and the capacity check.                        *)
(***************************************************************************)
\* the decoding loop: for each item of the sample, in order, append
\* int(varname[1:]) when the value is set and the name starts with 'x'
RECURSIVE DecodeFrom(_, _)
DecodeFrom(order, value) ==
    IF order = << >> THEN << >>
    ELSE LET varname == Head(order)
         IN  (IF value[varname] = 1 /\ varname[1] = "x" THEN << varname[2] >> ELSE << >>)
             \o DecodeFrom(Tail(order), value)

Decode(s) == DecodeFrom(s.order, s.value)

\* total weight of the items at the given indices of a weights array
WeightOf(weights, indices) == SumSeq([i \in 1..Len(indices) |-> weights[indices[i] + 1]])

\* a capacity check that is off by one
ExceedsCapacity_OffByOne(total, weightcap) == total > weightcap + 1

\* if total_weight > original_weightcap
ExceedsCapacity(total, weightcap) == total > weightcap

NoneValue == [kind |-> "None"]
TupleValue(items, e) == [kind |-> "tuple", items |-> items, energy |-> e]

Frame(costs, weights, weight_capacity, smp, xdf) ==
    [ costs |-> costs, weights |-> weights, weight_capacity |-> weight_capacity,
      sampler |-> smp, xdf |-> xdf,
      original_costs |-> costs, original_weights |-> weights,
      original_weightcap |-> weight_capacity ]

\* a retry that relaxes the capacity it passes on
RetryFrame_Relaxed(f) ==
    Frame(f.original_costs, f.original_weights, f.original_weightcap + 1, f.sampler, f.xdf)

\* the arguments of the recursive call
RetryFrame(f) ==
    Frame(f.original_costs, f.original_weights, f.original_weightcap, f.sampler, f.xdf)

Top == stack[Len(stack)]

NoOutput == [kind |-> "None"]

(***************************************************************************)
(* Knapsack notebook: initial state.                                       *)
(***************************************************************************)
SlackIdle ==
    /\ slack_pc = "idle" /\ slack_capacity = << >> /\ slack_M = 0 /\ slack_y = << >>

TspIdle ==
    /\ tpc = "idle" /\ ncity = 0 /\ nread = 0 /\ op = [num_qubits |-> 0]
    /\ states_reported = << >>
    /\ result = [eigenstate |-> << >>] /\ tspx = << >> /\ solution = NoneValue
    /\ printed = << >> /\ qpuRuns = 0

Init ==
    /\ call \in SolverCalls \cup DirectCalls
    /\ pc = "entry"
    /\ stack = << >>
    /\ bqm = NoBQM /\ sampler = NoSampler /\ sampleset = {} /\ sample = NoSample
    /\ energy = 0 /\ selected_item_indices = << >> /\ total_weight = 0
    /\ ret = NoneValue /\ err = "None" /\ output = NoOutput
    /\ invocations = 0 /\ sampleCalls = 0 /\ outstanding = 0 /\ decoded = 0
    /\ overCapacity = 0 /\ samplersBuilt = 0 /\ usedSampler = NoSampler
    /\ TspIdle
    /\ SlackIdle

\* the locals of an invocation that starts, or whose frame is gone
FreshLocals ==
    /\ bqm' = NoBQM /\ sampler' = NoSampler /\ sampleset' = {} /\ sample' = NoSample
    /\ energy' = 0 /\ selected_item_indices' = << >> /\ total_weight' = 0

\* an exception handler that swallows the error and returns an empty solution
Raise_Handled(e) ==
    /\ pc' = "caller" /\ err' = e /\ stack' = << >> /\ ret' = TupleValue(<< >>, 0)
    /\ FreshLocals
    /\ UNCHANGED <<call, output, invocations, overCapacity>>

\* No function of the notebook has a try/except: an exception raised anywhere
\* unwinds every solve_knapsack frame and knapsackSolver, and ends the run.
Raise(e) ==
    /\ pc' = "raised" /\ err' = e /\ stack' = << >> /\ ret' = NoneValue
    /\ FreshLocals
    /\ UNCHANGED <<call, output, invocations, overCapacity>>

\* the running invocation returns v to its caller: the invocation that retried,
\* or the code that made the outermost call
Return(v) ==
    /\ ret' = v
    /\ stack' = SubSeq(stack, 1, Len(stack) - 1)
    /\ pc' = IF Len(stack) = 1 THEN "caller" ELSE "resume"
    /\ FreshLocals
    /\ UNCHANGED <<call, err, output, invocations, sampleCalls, outstanding, decoded,
                   overCapacity, samplersBuilt, usedSampler>>

(***************************************************************************)
(* Knapsack notebook: the steps.                                           *)
(***************************************************************************)
\* knapsackSolver up to its call of solve_knapsack(df['cost'], df['weight'], wt_cap, xdf=df)
knapsackSolver ==
    /\ pc = "entry" /\ call.fn = "knapsackSolver"
    /\ UNCHANGED <<tvars, svars>>
    /\ stack' = << Frame(Column(call.df, "cost"), Column(call.df, "weight"),
                         call.wt_cap, NoSampler, call.df) >>
    /\ invocations' = invocations + 1
    /\ pc' = "compile"
    /\ UNCHANGED <<call, bqm, sampler, sampleset, sample, energy, selected_item_indices,
                   total_weight, ret, err, output, sampleCalls, outstanding, decoded,
                   overCapacity, samplersBuilt, usedSampler>>

\* a direct call of solve_knapsack
solve_knapsack ==
    /\ pc = "entry" /\ call.fn = "solve_knapsack"
    /\ UNCHANGED <<tvars, svars>>
    /\ stack' = << Frame(Column(call.df, "cost"), Column(call.df, "weight"),
                         call.wt_cap, call.sampler, call.xdf) >>
    /\ invocations' = invocations + 1
    /\ pc' = "compile"
    /\ UNCHANGED <<call, bqm, sampler, sampleset, sample, energy, selected_item_indices,
                   total_weight, ret, err, output, sampleCalls, outstanding, decoded,
                   overCapacity, samplersBuilt, usedSampler>>

\* a BQM compilation that goes on to submit without a sampler being built
compileBQM_then_submit ==
    /\ pc = "compile"
    /\ UNCHANGED <<tvars, svars>>
    /\ BuildError(Top.costs, Top.weight_capacity) = "None"
    /\ bqm' = build_knapsack_bqm(Top.costs, Top.weights, Top.weight_capacity)
    /\ pc' = "submit"
    /\ UNCHANGED <<call, stack, sampler, sampleset, sample, energy,
                   selected_item_indices, total_weight, ret, err, output,
                   invocations, sampleCalls, outstanding, decoded, overCapacity,
                   samplersBuilt, usedSampler>>

\* bqm = compileBQM(costs, weights, weight_capacity)
compileBQM ==
    /\ pc = "compile"
    /\ UNCHANGED <<tvars, svars>>
    /\ IF BuildError(Top.costs, Top.weight_capacity) # "None"
       THEN /\ Raise(BuildError(Top.costs, Top.weight_capacity))
            /\ UNCHANGED <<sampleCalls, outstanding, decoded, samplersBuilt, usedSampler>>
       ELSE /\ bqm' = build_knapsack_bqm(Top.costs, Top.weights, Top.weight_capacity)
            /\ pc' = "mksampler"
            /\ UNCHANGED <<call, stack, sampler, sampleset, sample, energy,
                           selected_item_indices, total_weight, ret, err, output,
                           invocations, sampleCalls, outstanding, decoded, overCapacity,
                           samplersBuilt, usedSampler>>

\* the sampler instance runSampler samples with
SamplerFor(f, built) == built

\* runSampler: sampler = mksampler() builds a new sampler instance
mksampler ==
    /\ pc = "mksampler"
    /\ UNCHANGED <<tvars, svars>>
    /\ samplersBuilt' = samplersBuilt + 1
    /\ sampler' = SamplerFor(Top, BuiltSampler(samplersBuilt + 1))
    /\ pc' = "submit"
    /\ UNCHANGED <<call, stack, bqm, sampleset, sample, energy, selected_item_indices,
                   total_weight, ret, err, output, invocations, sampleCalls, outstanding,
                   decoded, overCapacity, usedSampler>>

\* building the sampler fails (credentials, network)
mksampler_fails ==
    /\ pc = "mksampler"
    /\ UNCHANGED <<tvars, svars>>
    /\ Raise("SamplerError")
    /\ UNCHANGED <<sampleCalls, outstanding, decoded, samplersBuilt, usedSampler>>

\* runSampler: sampler.sample(bqm) submits the job and blocks
sample_submit ==
    /\ pc = "submit"
    /\ UNCHANGED <<tvars, svars>>
    /\ sampleCalls' = sampleCalls + 1
    /\ outstanding' = outstanding + 1
    /\ usedSampler' = sampler
    /\ pc' = "await"
    /\ UNCHANGED <<call, stack, bqm, sampler, sampleset, sample, energy,
                   selected_item_indices, total_weight, ret, err, output, invocations,
                   decoded, overCapacity, samplersBuilt>>

\* the sampler may return an over-capacity lowest-energy read on every attempt;
\* the model lets it do so for the first MaxAttempts - 1 attempts
WithinModelBound(f, s) ==
    \/ Len(stack) < MaxAttempts
    \/ ~ExceedsCapacity(WeightOf(f.weights, Decode(s)), f.weight_capacity)

\* runSampler: the sampleset comes back; sample and energy are those of sampleset.first
sample_returns ==
    /\ pc = "await"
    /\ UNCHANGED <<tvars, svars>>
    /\ \E S \in ReadSets(Assignments(bqm), MaxReads) :
       \E first \in Firsts(bqm, S) :
       \E order \in ItemOrders(bqm) :
          /\ WithinModelBound(Top, [order |-> order, value |-> first])
          /\ sampleset' = S
          /\ sample' = [order |-> order, value |-> first]
          /\ energy' = Energy(bqm, first)
    /\ outstanding' = outstanding - 1
    /\ pc' = "decode"
    /\ UNCHANGED <<call, stack, bqm, sampler, selected_item_indices, total_weight, ret,
                   err, output, invocations, sampleCalls, decoded, overCapacity,
                   samplersBuilt, usedSampler>>

\* sampler.sample raises (network error, job failure)
sample_fails ==
    /\ pc = "await"
    /\ UNCHANGED <<tvars, svars>>
    /\ outstanding' = outstanding - 1
    /\ Raise("SamplerError")
    /\ UNCHANGED <<sampleCalls, decoded, samplersBuilt, usedSampler>>

\* the decoding loop over sample.items()
decode ==
    /\ pc = "decode"
    /\ UNCHANGED <<tvars, svars>>
    /\ selected_item_indices' = Decode(sample)
    /\ decoded' = decoded + 1
    /\ pc' = "weigh"
    /\ UNCHANGED <<call, stack, bqm, sampler, sampleset, sample, energy, total_weight,
                   ret, err, output, invocations, sampleCalls, outstanding, overCapacity,
                   samplersBuilt, usedSampler>>

\* selected_weights = list(xdf.loc[selected_item_indices, 'weight']); total_weight = sum(...)
weigh ==
    /\ pc = "weigh"
    /\ UNCHANGED <<tvars, svars>>
    /\ IF LocFails(Top.xdf, selected_item_indices, "weight")
       THEN /\ Raise("KeyError")
            /\ UNCHANGED <<sampleCalls, outstanding, decoded, samplersBuilt, usedSampler>>
       ELSE /\ total_weight' = SumSeq(Loc(Top.xdf, selected_item_indices, "weight"))
            /\ pc' = "check"
            /\ UNCHANGED <<call, stack, bqm, sampler, sampleset, sample, energy,
                           selected_item_indices, ret, err, output, invocations,
                           sampleCalls, outstanding, decoded, overCapacity,
                           samplersBuilt, usedSampler>>

\* a retry that is given up after the first one
retry_once ==
    /\ pc = "check"
    /\ UNCHANGED <<tvars, svars>>
    /\ ExceedsCapacity(total_weight, Top.original_weightcap)
    /\ invocations < 2
    /\ overCapacity' = overCapacity + 1
    /\ stack' = Append(stack, RetryFrame(Top))
    /\ invocations' = invocations + 1
    /\ pc' = "compile"
    /\ FreshLocals
    /\ UNCHANGED <<call, ret, err, output, sampleCalls, outstanding, decoded,
                   samplersBuilt, usedSampler>>

\* a retry that submits the BQM it has again instead of calling solve_knapsack
retry_resubmits ==
    /\ pc = "check"
    /\ UNCHANGED <<tvars, svars>>
    /\ ExceedsCapacity(total_weight, Top.original_weightcap)
    /\ overCapacity < MaxAttempts
    /\ overCapacity' = overCapacity + 1
    /\ pc' = "submit"
    /\ UNCHANGED <<call, stack, bqm, sampler, sampleset, sample, energy,
                   selected_item_indices, total_weight, ret, err, output, invocations,
                   sampleCalls, outstanding, decoded, samplersBuilt, usedSampler>>

\* if total_weight > original_weightcap: solve_knapsack(original_costs, ...) again
retry ==
    /\ pc = "check"
    /\ UNCHANGED <<tvars, svars>>
    /\ ExceedsCapacity(total_weight, Top.original_weightcap)
    /\ overCapacity' = overCapacity + 1
    /\ stack' = Append(stack, RetryFrame(Top))
    /\ invocations' = invocations + 1
    /\ pc' = "compile"
    /\ FreshLocals
    /\ UNCHANGED <<call, ret, err, output, sampleCalls, outstanding, decoded,
                   samplersBuilt, usedSampler>>

\* the list returned as the decoding loop left it
Solution_Unsorted(indices, e) == TupleValue(indices, e)

\* the value of the else branch: return sorted(selected_item_indices), energy
Solution(indices, e) == TupleValue(sorted(indices), e)

\* else: return sorted(selected_item_indices), energy
return_solution ==
    /\ pc = "check"
    /\ UNCHANGED <<tvars, svars>>
    /\ ~ExceedsCapacity(total_weight, Top.original_weightcap)
    /\ Return(Solution(selected_item_indices, energy))

\* the value solve_knapsack returns after its recursive call has returned: the
\* call's value is dropped and the function ends without a return statement
AfterRetry(v) == NoneValue

\* the invocation that retried resumes after the recursive call
return_after_retry ==
    /\ pc = "resume"
    /\ UNCHANGED <<tvars, svars>>
    /\ Return(AfterRetry(ret))

\* knapsackSolver: selected_item_indices, energy = <returned value>, then the summary
print_summary ==
    /\ pc = "caller" /\ call.fn = "knapsackSolver"
    /\ UNCHANGED <<tvars, svars>>
    /\ IF ret.kind # "tuple"
       THEN /\ Raise("TypeError")
            /\ UNCHANGED <<sampleCalls, outstanding, decoded, samplersBuilt, usedSampler>>
       ELSE /\ output' =
                 LET selected_weights == Loc(call.df, ret.items, "weight")
                     selected_costs == Loc(call.df, ret.items, "cost")
                 IN  [ kind |-> "summary", energy |-> ret.energy, items |-> ret.items,
                       weights |-> selected_weights,
                       total_weight |-> SumSeq(selected_weights),
                       costs |-> selected_costs, total_cost |-> SumSeq(selected_costs) ]
            /\ pc' = "done"
            /\ UNCHANGED <<call, stack, bqm, sampler, sampleset, sample, energy,
                           selected_item_indices, total_weight, ret, err, invocations,
                           sampleCalls, outstanding, decoded, overCapacity,
                           samplersBuilt, usedSampler>>

\* the direct caller of solve_knapsack has its return value
caller_receives ==
    /\ pc = "caller" /\ call.fn = "solve_knapsack"
    /\ UNCHANGED <<tvars, svars>>
    /\ pc' = "done"
    /\ UNCHANGED <<call, stack, bqm, sampler, sampleset, sample, energy,
                   selected_item_indices, total_weight, ret, err, output, invocations,
                   sampleCalls, outstanding, decoded, overCapacity, samplersBuilt,
                   usedSampler>>

Next ==
    \/ knapsackSolver \/ solve_knapsack \/ compileBQM
    \/ mksampler \/ mksampler_fails
    \/ sample_submit \/ sample_returns \/ sample_fails
    \/ decode \/ weigh \/ retry \/ return_solution \/ return_after_retry
    \/ print_summary \/ caller_receives

Spec == Init /\ [][Next]_vars

(***************************************************************************)
(* TSP notebook.                                                           *)
(*                                                                         *)
(* The sample x has ncity * ncity bits; bit i * ncity + p (0-based) says   *)
(* that city i is visited at position p.  The eigenstate returned by the   *)
(* QPU run is represented by the bit vector sample_most_likely picks from  *)
(* it and the number of reads it aggregates.                               *)
(***************************************************************************)
TspBit(x, n, i, p) == x[i * n + p + 1]

\* tsp.tsp_feasible(x): every row and every column of the n x n matrix sums to 1
tsp_feasible(x, n) ==
    /\ \A i \in 0..(n - 1) : SumSeq([p \in 1..n |-> TspBit(x, n, i, p - 1)]) = 1
    /\ \A p \in 0..(n - 1) : SumSeq([i \in 1..n |-> TspBit(x, n, i - 1, p)]) = 1

\* tsp.get_tsp_solution(x): for each position p, in order, the cities i set at p
RECURSIVE TourFrom(_, _, _)
TourFrom(x, n, k) ==
    IF k >= n * n THEN << >>
    ELSE LET p == k \div n
             i == k % n
         IN  (IF TspBit(x, n, i, p) = 1 THEN << i >> ELSE << >>) \o TourFrom(x, n, k + 1)

get_tsp_solution(x, n) == TourFrom(x, n, 0)

\* sample_most_likely(result.eigenstate)
sample_most_likely(eigenstate) == eigenstate.most_likely

FeasibleMessage == "TSP is feasible."
NotFeasibleMessage == "ERROR: TSP is not feasible."
WeirdMessage == "Something weird is happening, TSP does not seem to be feasible or not-feasible."
FeasibilityMessages == {FeasibleMessage, NotFeasibleMessage, WeirdMessage}

\* the message is_feasible prints for the verdict tspf
IsFeasibleMessage(tspf) ==
    IF tspf = TRUE THEN FeasibleMessage
    ELSE IF tspf = FALSE THEN NotFeasibleMessage
    ELSE WeirdMessage

NoCall == [fn |-> "None", df |-> EmptyDataFrame, wt_cap |-> 0, sampler |-> NoSampler,
           xdf |-> EmptyDataFrame]

KnapsackIdle ==
    /\ call = NoCall /\ pc = "idle" /\ stack = << >>
    /\ bqm = NoBQM /\ sampler = NoSampler /\ sampleset = {} /\ sample = NoSample
    /\ energy = 0 /\ selected_item_indices = << >> /\ total_weight = 0
    /\ ret = NoneValue /\ err = "None" /\ output = NoOutput
    /\ invocations = 0 /\ sampleCalls = 0 /\ outstanding = 0 /\ decoded = 0
    /\ overCapacity = 0 /\ samplersBuilt = 0 /\ usedSampler = NoSampler

\* width in bits of the integer np.power computes in (numpy's default int64)
Int64Bits == 64

\* an int64 as its bits, least significant first; bit Int64Bits is the sign bit
Int64One == [k \in 1..Int64Bits |-> IF k = 1 THEN 1 ELSE 0]

\* multiplication by 2 in int64: the bits move up by one and the top bit is lost
Int64Double(bits) == [k \in 1..Int64Bits |-> IF k = 1 THEN 0 ELSE bits[k - 1]]

\* np.power(2, n) for n >= 0: n wrapping multiplications by 2
RECURSIVE np_power2(_)
np_power2(n) == IF n <= 0 THEN Int64One ELSE Int64Double(np_power2(n - 1))

\* the most likely samples a QPU run can return: every bit vector for instances of
\* at most MaxCity cities, and for larger instances the all-zero vector, the
\* all-one vector and the tour 0, 1, ..., n-1
QpuSamples(n) ==
    IF n <= MaxCity THEN [1..(n * n) -> {0, 1}]
    ELSE { [k \in 1..(n * n) |-> 0], [k \in 1..(n * n) |-> 1],
           [k \in 1..(n * n) |-> IF (k - 1) \div n = (k - 1) % n THEN 1 ELSE 0] }

\* solve_ncity(ncity, nread) is called
InitTSP ==
    /\ KnapsackIdle
    /\ SlackIdle
    /\ tpc = "get_op"
    /\ ncity \in 1..MaxOpCity /\ nread \in 1..MaxShots
    /\ op = [num_qubits |-> 0]
    /\ states_reported = << >>
    /\ result = [eigenstate |-> << >>] /\ tspx = << >> /\ solution = NoneValue
    /\ printed = << >> /\ qpuRuns = 0

\* solve_ncity: op = get_op(ncity); the operator of an n-city TSP has n * n qubits
get_op ==
    /\ tpc = "get_op"
    /\ op' = [num_qubits |-> ncity * ncity]
    /\ states_reported' = np_power2(ncity * ncity)
    /\ printed' = printed \o << "-> Cities, Shots", "[1/3] Getting operator...",
                               "Generating cities...", "Converting TSP...",
                               "Returning operator..." >>
    /\ tpc' = "qpu_run"
    /\ UNCHANGED <<ncity, nread, result, tspx, solution, qpuRuns, kvars, svars>>

\* solve_ncity: result = qpu_run(op, nread), one compute_minimum_eigenvalue call
qpu_run ==
    /\ tpc = "qpu_run"
    /\ printed' = Append(printed, "[2/3] Running on QPU...")
    /\ qpuRuns' = qpuRuns + 1
    /\ \E x \in QpuSamples(ncity) :
          result' = [eigenstate |-> [most_likely |-> x, reads |-> nread]]
    /\ tpc' = "get_solution"
    /\ UNCHANGED <<ncity, nread, op, states_reported, tspx, solution, kvars, svars>>

\* get_solution: tspx = sample_most_likely(result.eigenstate)
get_solution ==
    /\ tpc = "get_solution"
    /\ printed' = Append(printed, "[3/3] Getting solution...")
    /\ tspx' = sample_most_likely(result.eigenstate)
    /\ tpc' = "is_feasible"
    /\ UNCHANGED <<ncity, nread, op, states_reported, result, solution, qpuRuns, kvars, svars>>

\* a feasibility check that sends an infeasible sample back to the QPU
is_feasible_retries ==
    /\ tpc = "is_feasible"
    /\ printed' = Append(printed, IsFeasibleMessage(tsp_feasible(tspx, ncity)))
    /\ tpc' = IF tsp_feasible(tspx, ncity) \/ qpuRuns > 1
              THEN "get_tsp_solution" ELSE "qpu_run"
    /\ UNCHANGED <<ncity, nread, op, states_reported, result, tspx, solution, qpuRuns, kvars, svars>>

\* get_solution: is_feasible(tspx) prints its message and returns nothing
is_feasible ==
    /\ tpc = "is_feasible"
    /\ printed' = Append(printed, IsFeasibleMessage(tsp_feasible(tspx, ncity)))
    /\ tpc' = "get_tsp_solution"
    /\ UNCHANGED <<ncity, nread, op, states_reported, result, tspx, solution, qpuRuns, kvars, svars>>

\* the value get_solution returns
TourValue(x, n) == [kind |-> "tour", tour |-> get_tsp_solution(x, n)]

\* get_solution: tsp_solution = tsp.get_tsp_solution(tspx); print(tspx); return tsp_solution
return_tsp_solution ==
    /\ tpc = "get_tsp_solution"
    /\ solution' = TourValue(tspx, ncity)
    /\ printed' = Append(printed, "tspx")
    /\ tpc' = "print_best"
    /\ UNCHANGED <<ncity, nread, op, states_reported, result, tspx, qpuRuns, kvars, svars>>

\* solve_ncity: print(f'--> Best solution to TSP: {solution}')
print_best ==
    /\ tpc = "print_best"
    /\ printed' = Append(printed, "--> Best solution to TSP")
    /\ tpc' = "done"
    /\ UNCHANGED <<ncity, nread, op, states_reported, result, tspx, solution, qpuRuns, kvars, svars>>

NextTSP ==
    \/ get_op \/ qpu_run \/ get_solution \/ is_feasible \/ return_tsp_solution
    \/ print_best

SpecTSP == InitTSP /\ [][NextTSP]_vars

(***************************************************************************)
(* build_knapsack_bqm, the slack coefficients (specification SpecSlack).   *)
(* Python integers are unbounded; every integer met here is below 2^63 in  *)
(* magnitude, so it is held exactly as Int64Bits two's-complement bits,    *)
(* least significant first.  log2 works on IEEE doubles.                   *)
(***************************************************************************)
\* largest capacity whose subsets of slack coefficients are enumerated
MaxSlackCap == 64

\* capacities 2^MaxSlackExp - d, d in 0..2, are tried as well
MaxSlackExp == 49

IntZero == [k \in 1..Int64Bits |-> 0]

\* the bits of a small natural number
IntFromNat(n) == [k \in 1..Int64Bits |-> IF k <= 30 THEN (n \div Pow2(k - 1)) % 2 ELSE 0]

\* the value of bits that hold a small natural number
RECURSIVE IntToNatFrom(_, _)
IntToNatFrom(bits, k) ==
    IF k > 30 THEN 0 ELSE bits[k] * Pow2(k - 1) + IntToNatFrom(bits, k + 1)

IntToNat(bits) == IntToNatFrom(bits, 1)

\* carry into bit k of a + b
RECURSIVE IntCarry(_, _, _)
IntCarry(a, b, k) ==
    IF k = 1 THEN 0 ELSE (a[k - 1] + b[k - 1] + IntCarry(a, b, k - 1)) \div 2

IntAdd(a, b) == [k \in 1..Int64Bits |-> (a[k] + b[k] + IntCarry(a, b, k)) % 2]

IntNeg(a) == IntAdd([k \in 1..Int64Bits |-> 1 - a[k]], Int64One)

IntSub(a, b) == IntAdd(a, IntNeg(b))

IntPositive(a) == a[Int64Bits] = 0 /\ a # IntZero

\* 2**n
TwoToThe(n) == [k \in 1..Int64Bits |-> IF k = n + 1 THEN 1 ELSE 0]

\* number of bits of a positive integer c: floor(log2(c)) is exactly BitLength(c) - 1
BitLength(c) == CHOOSE k \in 1..Int64Bits : c[k] = 1 /\ \A j \in (k + 1)..Int64Bits : c[j] = 0

\* log2 returns a double: just below an integer k in 33..64 doubles are 2^-47
\* apart, so log2(2^k - d) = k - d * log2(e) / 2^k rounds to k itself when it is
\* within 2^-48 of k, that is when d <= 2^(k - 48) * ln(2)
DoubleLog2Window(k) == IF k <= 48 THEN 0 ELSE (Pow2(k - 48) * 693) \div 1000

\* floor(log2(c)) as the double arithmetic computes it, c positive and below 2^53
floor_log2(c) ==
    LET k == BitLength(c)
    IN  IF IntAdd(c, IntFromNat(DoubleLog2Window(k)))[k + 1] = 1 THEN k ELSE k - 1

\* y.append(weight_capacity + 1 - 2**M)
slack_append(y, weight_capacity, m) ==
    Append(y, IntSub(IntAdd(weight_capacity, Int64One), TwoToThe(m)))

SlackCapacities ==
    { IntFromNat(c) : c \in 0..MaxSlackCap }
        \cup { IntSub(TwoToThe(MaxSlackExp), IntFromNat(d)) : d \in 0..2 }

\* build_knapsack_bqm(costs, weights, weight_capacity) is called, costs not empty
InitSlack ==
    /\ KnapsackIdle
    /\ TspIdle
    /\ slack_pc = "log2"
    /\ slack_capacity \in SlackCapacities
    /\ slack_M = 0
    /\ slack_y = << >>

\* M = floor(log2(weight_capacity)); log2 raises ValueError for 0
slack_log2 ==
    /\ slack_pc = "log2"
    /\ IF IntPositive(slack_capacity)
       THEN slack_M' = floor_log2(slack_capacity) /\ slack_pc' = "powers"
       ELSE slack_M' = slack_M /\ slack_pc' = "raised"
    /\ UNCHANGED <<slack_capacity, slack_y, kvars, tvars>>

\* y = [2**n for n in range(M)]
slack_powers ==
    /\ slack_pc = "powers"
    /\ slack_y' = [n \in 1..slack_M |-> TwoToThe(n - 1)]
    /\ slack_pc' = "append"
    /\ UNCHANGED <<slack_capacity, slack_M, kvars, tvars>>

\* y.append(weight_capacity + 1 - 2**M)
slack_last ==
    /\ slack_pc = "append"
    /\ slack_y' = slack_append(slack_y, slack_capacity, slack_M)
    /\ slack_pc' = "built"
    /\ UNCHANGED <<slack_capacity, slack_M, kvars, tvars>>

NextSlack ==
    \/ slack_log2 \/ slack_powers \/ slack_last

SpecSlack == InitSlack /\ [][NextSlack]_vars

(***************************************************************************)
(* Claims about the knapsack notebook (specification Spec).                *)
(***************************************************************************)
OriginalFrame ==
    Frame(Column(call.df, "cost"), Column(call.df, "weight"), call.wt_cap,
          call.sampler, call.xdf)

CallWeights == Column(call.df, "weight")

Running == pc \in {"compile", "mksampler", "submit", "await", "decode", "weigh", "check"}

\* C1: every solve_knapsack(costs, weights, weight_capacity, xdf=df) that terminates
\* returns the tuple (sorted selected indices, energy) of an attempt within capacity,
\* also after retries, so that knapsackSolver can unpack it.
C1_ReturnsValidSolution ==
    /\ (pc = "caller" /\ call.xdf = call.df) =>
          /\ ret.kind = "tuple"
          /\ ret.items = sorted(ret.items)
          /\ WeightOf(CallWeights, ret.items) <= call.wt_cap
    /\ err # "TypeError"

\* C2: in every list of selected indices solve_knapsack returns, and in every solution
\* summary knapsackSolver prints, the weights of the selected items sum to at most the
\* caller's weight capacity.
C2_CapacityNotExceeded ==
    /\ ret.kind = "tuple" => WeightOf(CallWeights, ret.items) <= call.wt_cap
    /\ output.kind = "summary" =>
          /\ output.total_weight = WeightOf(CallWeights, output.items)
          /\ output.total_weight <= call.wt_cap

C2_Witness ==
    /\ output.kind = "summary"
    /\ Len(output.items) >= 1
    /\ output.total_weight = call.wt_cap

\* C3: every solve_knapsack invocation, the retries included, runs with the costs,
\* weights, weight capacity, sampler argument and xdf of the original call, and they
\* stay what they were while the BQM is built, sampled and decoded.
C3_RetryIdenticalInputs ==
    \A i \in 1..Len(stack) : stack[i] = OriginalFrame

C3_Witness ==
    /\ Len(stack) >= 3
    /\ pc = "check"

\* C4: after every over-capacity result solve_knapsack calls itself again, whatever the
\* number of attempts made so far; while it runs every result decoded so far was over
\* capacity and led to a new invocation, and an invocation returns a solution only
\* from an attempt within capacity.
C4_NoRetryBound ==
    /\ (pc = "check" /\ total_weight > Top.original_weightcap) =>
          /\ ENABLED retry
          /\ ~ENABLED return_solution
    /\ (pc = "check" /\ total_weight <= Top.original_weightcap) => ~ENABLED retry
    /\ Running =>
          /\ Len(stack) = overCapacity + 1
          /\ decoded \in {overCapacity, overCapacity + 1}
    /\ pc \in {"resume", "caller"} => decoded = overCapacity + 1

C4_Witness ==
    /\ pc = "check"
    /\ total_weight > Top.original_weightcap
    /\ overCapacity = MaxAttempts - 2

\* C5 as stated: the number of sampler.sample calls equals the number of solve_knapsack
\* invocations started, which is one plus the number of over-capacity results; read
\* here at the end of a run, where no attempt is between its start and its job.
C5_OneJobPerInvocation ==
    pc \in {"done", "raised"} =>
        /\ sampleCalls = invocations
        /\ invocations = 1 + overCapacity
        /\ outstanding = 0

\* C5 amended: every invocation makes at most one sampler.sample call, after its BQM
\* and its sampler are built: the calls never exceed the invocations started and are
\* at most one behind, they are equal once the newest invocation has submitted its job;
\* the invocations are one plus the over-capacity results; a job is submitted only
\* when every earlier result has been decoded, and at most one job is outstanding.
C5_JobsFollowInvocations ==
    /\ sampleCalls <= invocations
    /\ invocations <= sampleCalls + 1
    /\ pc \in {"await", "decode", "weigh", "check", "resume", "caller", "done"} =>
          sampleCalls = invocations
    /\ invocations > 0 => invocations = 1 + overCapacity
    /\ outstanding \in {0, 1}
    /\ outstanding = 1 <=> pc = "await"
    /\ sampleCalls <= decoded + 1
    /\ pc = "submit" => decoded = sampleCalls

C5_Witness ==
    /\ pc = "await"
    /\ sampleCalls = 2
    /\ decoded = 1

\* C6: solve_knapsack samples with the sampler instance passed as `sampler`, builds a
\* sampler only when `sampler` is None, and a retry uses the same instance again.
C6_UsesGivenSampler ==
    /\ call.sampler # NoSampler => samplersBuilt = 0
    /\ (sampleCalls > 0 /\ call.sampler # NoSampler) => usedSampler = call.sampler
    /\ sampleCalls > 0 => usedSampler \in {call.sampler, BuiltSampler(1)}

\* C7: for every integer weight capacity passed to knapsackSolver, build_knapsack_bqm
\* constructs a BQM without raising an error.
C7_AnyCapacityBuilds ==
    call.fn = "knapsackSolver" => err # "ValueError"

\* C8: a failure other than an over-capacity result leaves solve_knapsack and
\* knapsackSolver uncaught: the run ends there, no retry is triggered by it, no
\* solution summary is printed, and a failure of BQM construction comes before any
\* sampler is built or job submitted.
C8_FailuresPropagate ==
    /\ err # "None" =>
          /\ pc = "raised"
          /\ stack = << >>
          /\ ret = NoneValue
          /\ output = NoOutput
          /\ outstanding = 0
          /\ ~ENABLED Next
    /\ err \in {"ValueError", "SamplerError", "KeyError"} => invocations = 1 + overCapacity
    /\ err = "ValueError" =>
          /\ sampleCalls = 0
          /\ samplersBuilt = 0
          /\ invocations = 1

C8_Witness ==
    /\ pc = "raised"
    /\ err = "ValueError"
    /\ call.fn = "knapsackSolver"
    /\ call.wt_cap = 0

\* C9: solve_knapsack called with xdf left at its default compares the capacity with
\* the sum of the entries of `weights` at the selected indices and returns the
\* selected indices and the energy.
C9_DefaultXdfReturns ==
    (call.fn = "solve_knapsack" /\ call.xdf = EmptyDataFrame) =>
        /\ err # "KeyError"
        /\ pc = "check" => total_weight = WeightOf(Top.weights, selected_item_indices)
        /\ pc = "caller" => ret.kind = "tuple"

(***************************************************************************)
(* Claims about the TSP notebook (specification SpecTSP).                  *)
(***************************************************************************)
FeasibilityLines == { i \in 1..Len(printed) : printed[i] \in FeasibilityMessages }

AfterFeasibilityCheck == tpc \in {"get_tsp_solution", "print_best", "done"}

\* C10: is_feasible prints exactly one of its three messages and changes nothing
\* else; get_solution returns the tour decoded from the most likely sample whether or
\* not that sample is feasible; solve_ncity makes exactly one QPU run and never
\* retries.
C10_FeasibilityOnlyWarns ==
    /\ [](/\ qpuRuns <= 1
          /\ tpc \in {"get_solution", "is_feasible", "get_tsp_solution", "print_best", "done"}
                => qpuRuns = 1
          /\ Cardinality(FeasibilityLines) = IF AfterFeasibilityCheck THEN 1 ELSE 0
          /\ AfterFeasibilityCheck =>
                \E i \in FeasibilityLines :
                    printed[i] = IF tsp_feasible(tspx, ncity) THEN FeasibleMessage
                                 ELSE NotFeasibleMessage
          /\ tpc \in {"print_best", "done"} =>
                /\ tspx = result.eigenstate.most_likely
                /\ solution = [kind |-> "tour", tour |-> get_tsp_solution(tspx, ncity)])
    /\ [][tpc = "is_feasible" =>
            /\ tpc' = "get_tsp_solution"
            /\ Len(printed') = Len(printed) + 1
            /\ SubSeq(printed', 1, Len(printed)) = printed
            /\ UNCHANGED <<ncity, nread, op, states_reported, result, tspx, solution, qpuRuns, kvars, svars>>]_vars

C10_Witness ==
    /\ tpc = "done"
    /\ ncity = 2
    /\ ~tsp_feasible(tspx, ncity)
    /\ solution.kind = "tour"
    /\ qpuRuns = 1

(***************************************************************************)
(* Further claims about the knapsack notebook (specification Spec).        *)
(***************************************************************************)
\* the control locations that can follow a control location
NextLocations(l) ==
    CASE l = "entry" -> {"compile"}
      [] l = "compile" -> {"mksampler", "raised"}
      [] l = "mksampler" -> {"submit", "raised"}
      [] l = "submit" -> {"await"}
      [] l = "await" -> {"decode", "raised"}
      [] l = "decode" -> {"weigh"}
      [] l = "weigh" -> {"check", "raised"}
      [] l = "check" -> {"compile", "resume", "caller"}
      [] l = "resume" -> {"resume", "caller"}
      [] l = "caller" -> {"done", "raised"}
      [] OTHER -> {}

\* what an attempt has produced when it stands at each of its steps
StepProducts ==
    /\ pc = "compile" =>
          /\ bqm = NoBQM /\ sampler = NoSampler /\ sample = NoSample
          /\ samplersBuilt = invocations - 1 /\ sampleCalls = invocations - 1
          /\ decoded = invocations - 1
    /\ pc = "mksampler" =>
          /\ bqm = build_knapsack_bqm(Top.costs, Top.weights, Top.weight_capacity)
          /\ sampler = NoSampler /\ sample = NoSample
          /\ samplersBuilt = invocations - 1 /\ sampleCalls = invocations - 1
    /\ pc = "submit" =>
          /\ bqm # NoBQM /\ sampler = BuiltSampler(invocations) /\ sample = NoSample
          /\ samplersBuilt = invocations /\ sampleCalls = invocations - 1
    /\ pc = "await" =>
          /\ bqm # NoBQM /\ sampler # NoSampler /\ sample = NoSample
          /\ sampleCalls = invocations /\ outstanding = 1
          /\ decoded = invocations - 1
    /\ pc = "decode" =>
          /\ sample # NoSample /\ outstanding = 0 /\ selected_item_indices = << >>
          /\ sampleCalls = invocations /\ decoded = invocations - 1
    /\ pc = "weigh" =>
          /\ selected_item_indices = Decode(sample)
          /\ decoded = invocations /\ overCapacity = invocations - 1
    /\ pc = "check" =>
          /\ selected_item_indices = Decode(sample)
          /\ total_weight = WeightOf(Top.weights, selected_item_indices)
          /\ decoded = invocations /\ overCapacity = invocations - 1
    /\ output.kind = "summary" =>
          /\ pc = "done" /\ ret.kind = "tuple"
          /\ decoded = overCapacity + 1
          /\ samplersBuilt = invocations /\ sampleCalls = invocations
          /\ ~ExceedsCapacity(output.total_weight, call.wt_cap)

\* C11: the dataset is read before the first attempt; every attempt builds the BQM,
\* then the sampler, then submits the BQM and awaits the result, then decodes the
\* sample, then checks the capacity, each step only after the one before it; the
\* summary is printed only after a capacity check has passed.
C11_LinearOrder ==
    /\ [](StepProducts)
    /\ [][pc' # pc => pc' \in NextLocations(pc)]_vars
    /\ [][(pc' = "compile" /\ invocations = 0) =>
             (pc = "entry" /\ stack' = << OriginalFrame >>)]_vars

C11_Witness ==
    /\ pc = "check"
    /\ invocations = 2
    /\ samplersBuilt = 2
    /\ sampleCalls = 2

\* A * (sum_i weights[i] * x_i - sum_j y[j] * y_j)^2 - sum_i costs[i] * x_i for the
\* assignment s of the item variables x_i and the slack variables y_j
LagrangianEnergy(costs, weights, weight_capacity, s) ==
    LET A == MaxSeq(costs)
        y == SlackCoefficients(weight_capacity)
        wx == SumSeq([i \in 1..Len(costs) |-> weights[i] * s[XVar(i - 1)]])
        sy == SumSeq([j \in 1..Len(y) |-> y[j] * s[YVar(j - 1)]])
        cx == SumSeq([i \in 1..Len(costs) |-> costs[i] * s[XVar(i - 1)]])
    IN  A * ((wx - sy) * (wx - sy)) - cx

\* C12: for every 0/1 assignment of the item and slack variables, the energy of the
\* BQM that build_knapsack_bqm constructs (its linear and quadratic coefficients over
\* the variables set to 1) equals A * (sum w_i x_i - sum s_j y_j)^2 - sum c_i x_i,
\* with A = max(costs).
C12_LagrangianClosedForm ==
    pc = "mksampler" =>
        /\ DOMAIN bqm.linear =
              { XVar(i) : i \in 0..(Len(Top.costs) - 1) } \cup
              { YVar(j) : j \in 0..Log2Floor(Top.weight_capacity) }
        /\ \A s \in Assignments(bqm) :
              Energy(bqm, s) =
                  LagrangianEnergy(Top.costs, Top.weights, Top.weight_capacity, s)

C12_Witness ==
    /\ pc = "mksampler"
    /\ Len(Top.costs) = 2
    /\ Top.weight_capacity = 3
    /\ \E s \in Assignments(bqm) :
          /\ s[XVar(0)] = 1 /\ s[XVar(1)] = 1 /\ s[YVar(0)] = 1 /\ s[YVar(1)] = 1
          /\ Energy(bqm, s) # 0

(***************************************************************************)
(* Further claims about the TSP notebook (specification SpecTSP).          *)
(***************************************************************************)
\* the int64 with the given bits is the number 2^n: it is not negative and its only
\* set bit is bit n (0-based); no int64 is 2^n for n >= Int64Bits - 1
IsTwoToThe(bits, n) ==
    /\ bits[Int64Bits] = 0
    /\ n + 1 < Int64Bits
    /\ \A k \in 1..Int64Bits : bits[k] = (IF k = n + 1 THEN 1 ELSE 0)

\* C13: for every number of cities, the total number of states get_op reports is 2
\* raised to the number of qubits of the operator, also when the number of qubits
\* reaches or exceeds the width of the machine integer.
C13_ReportsTwoToTheQubits ==
    tpc # "get_op" => IsTwoToThe(states_reported, op.num_qubits)

(***************************************************************************)
(* Claims about decoding, the slack coefficients and the energy (Spec).    *)
(***************************************************************************)
Elements(list) == { list[i] : i \in 1..Len(list) }

StrictlyAscending(list) == \A i \in 1..(Len(list) - 1) : list[i] < list[i + 1]

\* the items whose variable 'x' + str(i) the sample sets
ItemsSet(value, n) == { i \in 0..(n - 1) : value[XVar(i)] = 1 }

\* C14: the sample is decoded once; index i is selected if and only if the sample maps
\* 'x' + str(i) to 1, whatever the slack variables are; the returned list is sorted
\* ascending, without duplicates, with every index in 0..len(costs)-1.
C14_DecodingSelectsSetItems ==
    /\ [](pc \in {"weigh", "check"} =>
            /\ Elements(selected_item_indices) = ItemsSet(sample.value, Len(Top.costs))
            /\ Len(selected_item_indices) = Cardinality(Elements(selected_item_indices))
            /\ decoded = sampleCalls)
    /\ [](decoded <= sampleCalls)
    /\ [][(pc = "check" /\ ret'.kind = "tuple") =>
            /\ Elements(ret'.items) = ItemsSet(sample.value, Len(Top.costs))
            /\ StrictlyAscending(ret'.items)
            /\ Elements(ret'.items) \subseteq 0..(Len(Top.costs) - 1)]_vars

C14_Witness ==
    /\ pc = "check"
    /\ selected_item_indices = << 1, 0 >>
    /\ ~ExceedsCapacity(total_weight, Top.original_weightcap)
    /\ YVar(1) \in DOMAIN sample.value
    /\ sample.value[YVar(0)] = 1
    /\ sample.value[YVar(1)] = 0

\* sum of a list of integers, column by column: how many have bit k set, plus the carry
BitCount(list, k) == Cardinality({ i \in 1..Len(list) : list[i][k] = 1 })

RECURSIVE SumCarry(_, _)
SumCarry(list, k) ==
    IF k = 1 THEN 0 ELSE (BitCount(list, k - 1) + SumCarry(list, k - 1)) \div 2

IntSum(list) == [k \in 1..Int64Bits |-> (BitCount(list, k) + SumCarry(list, k)) % 2]

\* the sums of the subsets of a list of small coefficients
SubsetSums(list) ==
    { SumOver([i \in 1..Len(list) |-> IntToNat(list[i])], S) : S \in SUBSET (1..Len(list)) }

\* C15: for every integer weight_capacity >= 1 there are exactly
\* floor(log2(weight_capacity)) + 1 slack coefficients, all positive, the first M being
\* 2^0..2^(M-1) and the last weight_capacity + 1 - 2^M; they sum to weight_capacity and
\* the sums of their subsets are exactly the integers 0..weight_capacity.
C15_SlackCoefficients ==
    slack_pc = "built" =>
        LET M == BitLength(slack_capacity) - 1
        IN  /\ Len(slack_y) = M + 1
            /\ \A n \in 1..Len(slack_y) : IntPositive(slack_y[n])
            /\ \A n \in 1..M : slack_y[n] = TwoToThe(n - 1)
            /\ slack_y[M + 1] = IntSub(IntAdd(slack_capacity, Int64One), TwoToThe(M))
            /\ IntSum(slack_y) = slack_capacity
            /\ M < 30 => SubsetSums(slack_y) = 0..IntToNat(slack_capacity)

\* the largest element of a non-empty list
Largest(list) == CHOOSE m \in Elements(list) : \A c \in Elements(list) : c <= m

\* total cost, total weight and slack sum that a sample stands for in frame f
SampleCost(f, value) ==
    SumSeq([i \in 1..Len(f.costs) |-> f.costs[i] * value[XVar(i - 1)]])

SampleWeight(f, value) ==
    SumSeq([i \in 1..Len(f.weights) |-> f.weights[i] * value[XVar(i - 1)]])

SampleSlack(f, value) ==
    LET coefficients == SlackCoefficients(f.weight_capacity)
    IN  SumSeq([j \in 1..Len(coefficients) |-> coefficients[j] * value[YVar(j - 1)]])

Square(d) == d * d

\* C16 as stated: whenever a summary is printed, the reported energy is the negative of
\* the reported total cost, whatever the slack variables of the sample are.
C16_EnergyIsNegatedCost ==
    output.kind = "summary" => output.energy = 0 - output.total_cost

\* C16, amended: the summary reports the energy and the items solve_knapsack returned,
\* and the returned energy exceeds the negated total cost of the returned items by
\* max(costs) * (total weight - slack sum)^2: the reported energy is never below the
\* negated total cost and equals it exactly when the slack sum equals the total weight.
C16_EnergyIsCostPlusPenalty ==
    /\ [](output.kind = "summary" =>
            /\ output.energy = ret.energy /\ output.items = ret.items
            /\ output.total_cost = SumSeq(Loc(call.df, ret.items, "cost"))
            /\ output.energy >= 0 - output.total_cost)
    /\ [][(pc = "check" /\ ret'.kind = "tuple") =>
            /\ SumSeq([i \in 1..Len(ret'.items) |-> Top.costs[ret'.items[i] + 1]])
                   = SampleCost(Top, sample.value)
            /\ ret'.energy + SampleCost(Top, sample.value)
                   = Largest(Top.costs)
                       * Square(SampleWeight(Top, sample.value)
                                  - SampleSlack(Top, sample.value))
            /\ (ret'.energy = 0 - SampleCost(Top, sample.value))
                   <=> (SampleSlack(Top, sample.value) = SampleWeight(Top, sample.value))]_vars

C16_Witness ==
    /\ output.kind = "summary"
    /\ output.total_cost > 0
    /\ output.energy > 0 - output.total_cost

\* the reads of the sampleset that the capacity check of frame f would accept
FeasibleReads(f, S) ==
    { q \in S : ~ExceedsCapacity(SampleWeight(f, q), f.original_weightcap) }

\* C17: the decoded sample and the returned energy are the same read of the sampleset,
\* one of lowest energy; no other read is decoded or checked, so the attempt is retried
\* when that read is over capacity even if another read of the sampleset is within it.
C17_OnlyFirstReadUsed ==
    /\ [](pc \in {"decode", "weigh", "check"} =>
            /\ sample.value \in sampleset
            /\ \A q \in sampleset : Energy(bqm, sample.value) <= Energy(bqm, q)
            /\ energy = Energy(bqm, sample.value))
    /\ [](pc \in {"weigh", "check"} =>
            Elements(selected_item_indices) = ItemsSet(sample.value, Len(Top.costs)))
    /\ [](pc = "check" => total_weight = SampleWeight(Top, sample.value))
    /\ [](decoded <= sampleCalls)
    /\ [][(pc = "check"
            /\ ExceedsCapacity(SampleWeight(Top, sample.value), Top.original_weightcap))
          => (invocations' = invocations + 1 /\ pc' = "compile" /\ ret' = ret)]_vars
    /\ [][(pc = "check" /\ ret'.kind = "tuple") => ret'.energy = Energy(bqm, sample.value)]_vars

C17_Witness ==
    /\ pc = "check"
    /\ Cardinality(sampleset) = 2
    /\ ExceedsCapacity(total_weight, Top.original_weightcap)
    /\ FeasibleReads(Top, sampleset) # {}
    /\ overCapacity >= 1

====
